---- MODULE Spec2Model ----
(***************************************************************************)
(* Model of minindn/minindn.py (class Minindn): the topology-file parser   *)
(* processTopo, the constructor, ethernetPairConnectivity and stop.        *)
(*                                                                         *)
(* Strings that the code splits are kept pre-split: a configparser value   *)
(* is the sequence of its ' '-separated tokens, a token the sequence of    *)
(* its '='-separated fields, a key the sequence of its ':'-separated       *)
(* fields, and a field that int()/float() may read is the sequence of its  *)
(* characters.  A dotted-quad address string is the tuple of its octets.   *)
(* The input files are files of the topology-file grammar: every node      *)
(* token is '_' or key=value, every link token is key=value, and the       *)
(* values of bw, jitter, max_queue_size and loss are numeric literals.     *)
(***************************************************************************)
EXTENDS Integers, Sequences, FiniteSets, TLC

VARIABLES
    pc,               \* position of the program
    p_topo,           \* __init__ parameter topo (NoneVal or a Topo object)
    p_topoFile,       \* __init__ parameter topoFile (NoneVal, "" or a path)
    p_noTopo,         \* __init__ parameter noTopo
    args,             \* self.args: [topoFile, resultDir] from the command line
    resultDir,        \* Minindn.resultDir
    self_topoFile,    \* self.topoFile
    self_topo,        \* self.topo
    parsedFile,       \* the argument of the processTopo call (NoneVal: not called)
    config,           \* processTopo: the ConfigParser after config.read
    topo,             \* processTopo: the Topo being built (addHost/addSwitch/addLink calls)
    coordinates,      \* processTopo: the list coordinates
    idx,              \* processTopo: number of items of the current section consumed
    net,              \* self.net (NoneVal before Mininet() is called)
    homeDirs,         \* directories under workDir (made by initParams)
    cleanups,         \* self.cleanups
    ndnNetBase,       \* ethernetPairConnectivity: ndnNetBase
    interfaces,       \* ethernetPairConnectivity: the list interfaces
    eHost,            \* ethernetPairConnectivity: index of host in self.net.hosts
    eIntf,            \* ethernetPairConnectivity: index of intf in host.intfList()
    setIPCalls,       \* every node.setIP call made, in order
    ndnSecurityDisabled, \* Minindn.ndnSecurityDisabled
    netRunning,       \* whether net.start() has run and net.stop() has not
    netStopCalls,     \* number of net.stop() calls
    cleanupLog,       \* the cleanup callbacks invoked by stop(), in order
    sIdx,             \* stop(): number of cleanups iterated
    movedFiles,       \* the files in resultDir (moved there by stop())
    exitStatus,       \* status of sys.exit (NoneVal: no exit)
    fs                \* the file system: path -> content of the topology file there

vars == <<pc, p_topo, p_topoFile, p_noTopo, args, resultDir, self_topoFile,
          self_topo, parsedFile, config, topo, coordinates, idx, net, homeDirs,
          cleanups, ndnNetBase, interfaces, eHost, eIntf, setIPCalls,
          ndnSecurityDisabled, netRunning, netStopCalls, cleanupLog, sIdx,
          movedFiles, exitStatus, fs>>

ctorVars == <<p_topo, p_topoFile, p_noTopo, args, resultDir, self_topoFile, self_topo>>
ptVars == <<parsedFile, config, topo, coordinates, idx>>
ethVars == <<ndnNetBase, interfaces, eHost, eIntf, setIPCalls>>
stopVars == <<netRunning, netStopCalls, cleanupLog, sIdx, movedFiles>>

\* Python None and a present value x: the empty and the one-element sequence
NoneVal == <<>>

Some(x) == <<x>>

(***************************************************************************)
(* Bounds.                                                                 *)
(***************************************************************************)
MaxNodes == 3        \* nodes of a network handed to ethernetPairConnectivity
MaxLinks == 2        \* links of such a network
MaxNodeItems == 3    \* entries of a generated [nodes] section
MaxLinkItems == 2    \* entries of a generated [links] section
MaxCleanups == 2     \* registered cleanup callbacks

Names == <<"a", "b", "c", "d", "e">>

Range(s) == {s[i] : i \in DOMAIN s}

SeqsUpTo(S, n) == UNION {[1..k -> S] : k \in 0..n}

(***************************************************************************)
(* mininet.util.ipParse / ipStr as minindn.py uses them: a dotted quad to  *)
(* its 32-bit number and back.                                             *)
(***************************************************************************)
ipParse(ip) == ip[1] * 16777216 + ip[2] * 65536 + ip[3] * 256 + ip[4]

ipStr(n) == <<(n \div 16777216) % 256, (n \div 65536) % 256, (n \div 256) % 256, n % 256>>

BaseAddress == <<10, 0, 0, 0>>

PrefixLen == 30

SubnetStep == 4

\* ipStr(ipParse(ndnNetBase) + off) + '/30'
AddrOf(base, off) == [ip |-> ipStr(ipParse(base) + off), prefixLen |-> PrefixLen]

\* variant of NextBase: the base advanced by half a subnet
NextBase_HalfStep(base) == ipStr(ipParse(base) + 2)

\* ndnNetBase = ipStr(ipParse(ndnNetBase) + 4)
NextBase(base) == ipStr(ipParse(base) + SubnetStep)

(***************************************************************************)
(* The network object: Net.hosts, Net.switches, and the links; the         *)
(* interface <<i, e>> is link i's intf1 (e = 1) or intf2 (e = 2).          *)
(***************************************************************************)
IsSwitch(n, node) == node \in Range(n.switches)

Intf1(i) == <<i, 1>>

Intf2(i) == <<i, 2>>

IntfNode(n, intf) == IF intf[2] = 1 THEN n.links[intf[1]].node1 ELSE n.links[intf[1]].node2

AllIntfs(n) == [p \in 1..(2 * Len(n.links)) |-> <<(p + 1) \div 2, 2 - (p % 2)>>]

\* host.intfList(): the host's interfaces in port order
intfList(n, host) == SelectSeq(AllIntfs(n), LAMBDA x : IntfNode(n, x) = host)


(***************************************************************************)
(* ethernetPairConnectivity (lines 126-142), one action per step of the    *)
(* nested loop.                                                            *)
(***************************************************************************)
\* variant of HasSwitchEnd: 'and' in place of 'or'
HasSwitchEnd_BothEnds(n, i) == IsSwitch(n, n.links[i].node1) /\ IsSwitch(n, n.links[i].node2)

\* line 134: isinstance(node1, Switch) or isinstance(node2, Switch)
HasSwitchEnd(n, i) == IsSwitch(n, n.links[i].node1) \/ IsSwitch(n, n.links[i].node2)

\* variant of Unassigned: the interfaces list is not consulted
Unassigned_Always(ifs, i) == TRUE

\* line 137: link.intf1 not in interfaces and link.intf2 not in interfaces
Unassigned(ifs, i) == Intf1(i) \notin Range(ifs) /\ Intf2(i) \notin Range(ifs)

\* lines 140-141: the two setIP calls of one link
LinkSetIPs(n, base, i) ==
    << [node |-> n.links[i].node1, addr |-> AddrOf(base, 1), intf |-> Intf1(i)],
       [node |-> n.links[i].node2, addr |-> AddrOf(base, 2), intf |-> Intf2(i)] >>

\* self.net
Net == net[1]

EthHostIntfs == intfList(Net, Net.hosts[eHost])

EthInLoop == pc = "eth" /\ eHost <= Len(Net.hosts) /\ eIntf <= Len(EthHostIntfs)

EthLink == EthHostIntfs[eIntf][1]

\* lines 127-128: entry of the method
EthEnter ==
    /\ pc = "ethCall"
    /\ pc' = "eth"
    /\ ndnNetBase' = BaseAddress
    /\ interfaces' = <<>>
    /\ eHost' = 1
    /\ eIntf' = 1
    /\ UNCHANGED <<ctorVars, ptVars, stopVars, net, homeDirs, cleanups, setIPCalls,
                   ndnSecurityDisabled, exitStatus, fs>>

\* lines 134-135: a link with a switch at either end is skipped
EthSkipSwitch ==
    /\ EthInLoop
    /\ HasSwitchEnd(Net, EthLink)
    /\ eIntf' = eIntf + 1
    /\ UNCHANGED <<pc, ctorVars, ptVars, stopVars, net, homeDirs, cleanups, ndnNetBase,
                   interfaces, eHost, setIPCalls, ndnSecurityDisabled, exitStatus, fs>>

\* lines 137-142: the link's first visit
EthAssign ==
    /\ EthInLoop
    /\ ~HasSwitchEnd(Net, EthLink)
    /\ Unassigned(interfaces, EthLink)
    /\ interfaces' = interfaces \o <<Intf1(EthLink), Intf2(EthLink)>>
    /\ setIPCalls' = setIPCalls \o LinkSetIPs(Net, ndnNetBase, EthLink)
    /\ ndnNetBase' = NextBase(ndnNetBase)
    /\ eIntf' = eIntf + 1
    /\ UNCHANGED <<pc, ctorVars, ptVars, stopVars, net, homeDirs, cleanups, eHost,
                   ndnSecurityDisabled, exitStatus, fs>>

\* line 137 false: the link was assigned from its other end
EthSeen ==
    /\ EthInLoop
    /\ ~HasSwitchEnd(Net, EthLink)
    /\ ~Unassigned(interfaces, EthLink)
    /\ eIntf' = eIntf + 1
    /\ UNCHANGED <<pc, ctorVars, ptVars, stopVars, net, homeDirs, cleanups, ndnNetBase,
                   interfaces, eHost, setIPCalls, ndnSecurityDisabled, exitStatus, fs>>

\* line 129-130: the inner loop is exhausted, the next host
EthNextHost ==
    /\ pc = "eth"
    /\ eHost <= Len(Net.hosts)
    /\ eIntf > Len(EthHostIntfs)
    /\ eHost' = eHost + 1
    /\ eIntf' = 1
    /\ UNCHANGED <<pc, ctorVars, ptVars, stopVars, net, homeDirs, cleanups, ndnNetBase,
                   interfaces, setIPCalls, ndnSecurityDisabled, exitStatus, fs>>

\* line 129: the outer loop is exhausted, the method returns
EthReturn ==
    /\ pc = "eth"
    /\ eHost > Len(Net.hosts)
    /\ pc' = "ethReturned"
    /\ UNCHANGED <<ctorVars, ptVars, ethVars, stopVars, net, homeDirs, cleanups,
                   ndnSecurityDisabled, exitStatus, fs>>

(***************************************************************************)
(* SpecEth: ethernetPairConnectivity called on any network of MaxNodes     *)
(* nodes (each a host or a switch) and at most MaxLinks links, each        *)
(* joining two different nodes; parallel links are included.               *)
(***************************************************************************)
NodeSeq == [i \in 1..MaxNodes |-> Names[i]]

LinkEnds == {[node1 |-> x, node2 |-> y] : x, y \in Range(NodeSeq)} \ {[node1 |-> x, node2 |-> x] : x \in Range(NodeSeq)}

Nets ==
    { [hosts |-> SelectSeq(NodeSeq, LAMBDA x : x \notin S),
       switches |-> SelectSeq(NodeSeq, LAMBDA x : x \in S),
       links |-> ls] : S \in SUBSET Range(NodeSeq), ls \in SeqsUpTo(LinkEnds, MaxLinks) }

\* Topo()
EmptyTopo == [hosts |-> <<>>, switches |-> <<>>, links |-> <<>>]

IdleCtor ==
    /\ p_topo = NoneVal
    /\ p_topoFile = NoneVal
    /\ p_noTopo = FALSE
    /\ args = [topoFile |-> NoneVal, resultDir |-> NoneVal]
    /\ resultDir = NoneVal
    /\ self_topoFile = NoneVal
    /\ self_topo = NoneVal

IdlePt ==
    /\ parsedFile = NoneVal
    /\ config = <<>>
    /\ topo = EmptyTopo
    /\ coordinates = <<>>
    /\ idx = 0

IdleEth ==
    /\ ndnNetBase = BaseAddress
    /\ interfaces = <<>>
    /\ eHost = 1
    /\ eIntf = 1
    /\ setIPCalls = <<>>

IdleStop ==
    /\ netRunning = FALSE
    /\ netStopCalls = 0
    /\ cleanupLog = <<>>
    /\ sIdx = 0
    /\ movedFiles = {}

InitEth ==
    /\ pc = "ethCall"
    /\ net \in {Some(n) : n \in Nets}
    /\ IdleCtor /\ IdlePt /\ IdleEth /\ IdleStop
    /\ homeDirs = {}
    /\ cleanups = <<>>
    /\ ndnSecurityDisabled = FALSE
    /\ exitStatus = NoneVal
    /\ fs = <<>>

NextEth == EthEnter \/ EthSkipSwitch \/ EthAssign \/ EthSeen \/ EthNextHost \/ EthReturn

SpecEth == InitEth /\ [][NextEth]_vars


(***************************************************************************)
(* Claims about ethernetPairConnectivity (properties of SpecEth).          *)
(***************************************************************************)
RECURSIVE WalkFrom(_, _)
\* the interfaces in discovery order: hosts in net.hosts order, each host's
\* interfaces in intfList order
WalkFrom(n, h) ==
    IF h > Len(n.hosts) THEN <<>> ELSE intfList(n, n.hosts[h]) \o WalkFrom(n, h + 1)

BothHosts(n, i) == n.links[i].node1 \in Range(n.hosts) /\ n.links[i].node2 \in Range(n.hosts)

HostLinks(n) == {i \in DOMAIN n.links : BothHosts(n, i)}

FirstPos(n, i) ==
    LET w == WalkFrom(n, 1)
    IN  CHOOSE p \in DOMAIN w : w[p][1] = i /\ \A q \in 1..(p - 1) : w[q][1] # i

\* how many host-to-host links are discovered before link i
Rank(n, i) == Cardinality({j \in HostLinks(n) : FirstPos(n, j) < FirstPos(n, i)})

EthActive == pc \in {"eth", "ethReturned"}

CallsOn(intf) == {c \in DOMAIN setIPCalls : setIPCalls[c].intf = intf}

\* the calls the k-th (from 0) discovered host-to-host link l must get
ExpectedPair(n, l, k) ==
    << [node |-> n.links[l].node1, addr |-> [ip |-> <<10, 0, 0, 4 * k + 1>>, prefixLen |-> 30],
        intf |-> <<l, 1>>],
       [node |-> n.links[l].node2, addr |-> [ip |-> <<10, 0, 0, 4 * k + 2>>, prefixLen |-> 30],
        intf |-> <<l, 2>>] >>

\* C1: the k-th host-to-host link in discovery order gets 10.0.0.0 + 4k + 1 /30 on
\* intf1 and 10.0.0.0 + 4k + 2 /30 on intf2; the base is 10.0.0.0 advanced by
\* exactly 4 per assigned link (and by nothing else); on return every
\* host-to-host link has been assigned.
C1_SequentialSubnets ==
    EthActive =>
        /\ Len(setIPCalls) % 2 = 0
        /\ \A k \in 0..((Len(setIPCalls) \div 2) - 1) :
              \E l \in HostLinks(Net) :
                 /\ Rank(Net, l) = k
                 /\ <<setIPCalls[2 * k + 1], setIPCalls[2 * k + 2]>> = ExpectedPair(Net, l, k)
        /\ ndnNetBase = <<10, 0, 0, 4 * (Len(setIPCalls) \div 2)>>
        /\ pc = "ethReturned" => Len(setIPCalls) = 2 * Cardinality(HostLinks(Net))

\* C1 witness: a run that returned after assigning two host-to-host links, the
\* one with the higher index discovered first (k = 0) and the other at k = 1
C1_Witness ==
    /\ pc = "ethReturned"
    /\ Len(setIPCalls) = 4
    /\ setIPCalls[3].addr.ip = <<10, 0, 0, 5>>
    /\ setIPCalls[3].intf[1] < setIPCalls[1].intf[1]

SubnetOf(addr) == <<addr.ip[1], addr.ip[2], addr.ip[3], addr.ip[4] \div 4>>

\* C2: no interface ever gets a second setIP call, and on return every link joining
\* two non-switch nodes has exactly one setIP call on each of its two interfaces,
\* all addresses are pairwise distinct, the two interfaces of a link share a /30
\* and interfaces of different links are in different /30s.
C2_EachLinkOnce ==
    EthActive =>
        /\ \A i \in DOMAIN Net.links, e \in {1, 2} : Cardinality(CallsOn(<<i, e>>)) <= 1
        /\ \A c, d \in DOMAIN setIPCalls :
              /\ c # d => setIPCalls[c].addr.ip # setIPCalls[d].addr.ip
              /\ setIPCalls[c].addr.prefixLen = 30
              /\ (SubnetOf(setIPCalls[c].addr) = SubnetOf(setIPCalls[d].addr))
                    <=> (setIPCalls[c].intf[1] = setIPCalls[d].intf[1])
        /\ pc = "ethReturned" =>
              \A i \in HostLinks(Net) :
                 /\ Cardinality(CallsOn(<<i, 1>>)) = 1
                 /\ Cardinality(CallsOn(<<i, 2>>)) = 1

\* C2 witness: returned, two parallel links between the same two hosts, each
\* visited from both ends and each assigned once
C2_Witness ==
    /\ pc = "ethReturned"
    /\ Cardinality(HostLinks(Net)) = 2
    /\ {Net.links[1].node1, Net.links[1].node2} = {Net.links[2].node1, Net.links[2].node2}
    /\ Len(setIPCalls) = 4

\* the network without its links that have a switch at an end
StripSwitchLinks(n) == [n EXCEPT !.links = SelectSeq(n.links, LAMBDA l :
                            l.node1 \in Range(n.hosts) /\ l.node2 \in Range(n.hosts))]

\* the index in n of the j-th link of StripSwitchLinks(n)
KeptIndex(n, j) ==
    CHOOSE i \in HostLinks(n) : Cardinality({m \in HostLinks(n) : m < i}) = j - 1

\* the setIP calls on the stripped network, with its link indices mapped back
ExpectedStripped(n) ==
    LET s == StripSwitchLinks(n)
    IN  [c \in 1..(2 * Len(s.links)) |->
            LET k == (c - 1) \div 2
                j == CHOOSE x \in DOMAIN s.links : Rank(s, x) = k
                pair == ExpectedPair(s, j, k)
                call == pair[2 - (c % 2)]
            IN  [call EXCEPT !.intf = <<KeptIndex(n, j), call.intf[2]>>]]

VisitsSwitchLink == EthInLoop /\ ~BothHosts(Net, EthLink)

\* C9: a link with a switch at either end gets no setIP call, is not recorded in
\* interfaces, and its visit leaves the base, the recorded interfaces and the
\* calls unchanged; on return the calls are those of the same network with the
\* switch links absent.
C9_SwitchLinksUntouched ==
    /\ [](EthActive =>
            /\ \A c \in DOMAIN setIPCalls : BothHosts(Net, setIPCalls[c].intf[1])
            /\ \A c \in DOMAIN interfaces : BothHosts(Net, interfaces[c][1])
            /\ pc = "ethReturned" => setIPCalls = ExpectedStripped(Net))
    /\ [][VisitsSwitchLink => UNCHANGED <<ndnNetBase, interfaces, setIPCalls>>]_vars

\* C9 witness: returned from a network whose first host has a switch link that is
\* visited before its host-to-host link, which still gets the first subnet
C9_Witness ==
    /\ pc = "ethReturned"
    /\ Len(Net.links) = 2
    /\ ~BothHosts(Net, 1) /\ BothHosts(Net, 2)
    /\ Net.hosts[1] \in {Net.links[1].node1, Net.links[1].node2}
    /\ Net.hosts[1] \in {Net.links[2].node1, Net.links[2].node2}
    /\ Len(setIPCalls) = 2
    /\ setIPCalls[1].addr.ip = <<10, 0, 0, 1>>


(***************************************************************************)
(* processTopo (lines 144-194).  A section is the sequence of its          *)
(* (key, value) items in file order; config maps the names of the sections *)
(* the file has to them.                                                   *)
(***************************************************************************)
Digits == <<"0", "1", "2", "3", "4", "5", "6", "7", "8", "9">>

DigitVal(c) == (CHOOSE i \in DOMAIN Digits : Digits[i] = c) - 1

RECURSIVE DigitsValue(_, _)
DigitsValue(cs, acc) ==
    IF cs = <<>> THEN acc ELSE DigitsValue(Tail(cs), 10 * acc + DigitVal(Head(cs)))

RECURSIVE StripZeros(_, _)
\* a decimal num / 10^scale without its trailing fractional zeros
StripZeros(num, scale) ==
    IF scale > 0 /\ num % 10 = 0 THEN StripZeros(num \div 10, scale - 1)
    ELSE [type |-> "float", num |-> num, scale |-> scale]

\* int(value) of a decimal literal
IntOf(cs) == [type |-> "int", val |-> DigitsValue(cs, 0)]

\* float(value) of a decimal literal with at most one '.'
FloatOf(cs) ==
    LET digits == SelectSeq(cs, LAMBDA c : c # ".")
        dot == IF \E i \in DOMAIN cs : cs[i] = "." THEN CHOOSE i \in DOMAIN cs : cs[i] = "." ELSE Len(cs) + 1
        frac == IF dot > Len(cs) THEN 0 ELSE Len(cs) - dot
    IN  StripZeros(DigitsValue(digits, 0), frac)

\* a value left as the string it is
StrOf(cs) == [type |-> "str", val |-> cs]

\* variant of IntKeys: jitter is not coerced
IntKeys_NoJitter == {"bw", "max_queue_size"}

IntKeys == {"bw", "jitter", "max_queue_size"}

\* lines 186-189: the coercion of one link parameter
Coerce(key, value) ==
    IF key \in IntKeys THEN IntOf(value)
    ELSE IF key = "loss" THEN FloatOf(value)
    ELSE StrOf(value)

\* params[key] = value
DictSet(d, k, v) == [x \in (DOMAIN d) \cup {k} |-> IF x = k THEN v ELSE d[x]]

Placeholder == <<"_">>

RECURSIVE NodeParams(_, _)
\* lines 161-165: the params of a node entry from the tokens of its value
NodeParams(tokens, params) ==
    IF tokens = <<>> THEN params
    ELSE LET param == Head(tokens)
         IN  IF param = Placeholder THEN NodeParams(Tail(tokens), params)
             ELSE NodeParams(Tail(tokens), DictSet(params, param[1], param[2]))

RECURSIVE LinkParams(_, _)
\* lines 182-190: the params of a link entry from the tokens of its value
LinkParams(tokens, params) ==
    IF tokens = <<>> THEN params
    ELSE LET param == Head(tokens)
             key == param[1]
             value == param[2]
         IN  LinkParams(Tail(tokens), DictSet(params, key, Coerce(key, value)))

\* variant of IsDuplicate: the placeholder '_' is not exempt
IsDuplicate_NoExemption(coords, value) == value \in Range(coords)

\* line 155: item[1] in coordinates and item[1] != '_'
IsDuplicate(coords, value) == value \in Range(coords) /\ value # <<Placeholder>>

\* config.read(topoFile): a file that does not exist leaves the parser empty
ReadConfig(files, path) == IF path \in DOMAIN files THEN files[path] ELSE <<>>

HasSection(c, name) == name \in DOMAIN c

PtItem == config[IF pc = "ptNodes" THEN "nodes" ELSE "links"][idx + 1]

otherVars == <<ctorVars, ethVars, stopVars, net, homeDirs, cleanups, ndnSecurityDisabled, fs>>

\* lines 146-151, [nodes] present
PtEnter ==
    /\ pc = "ptCall"
    /\ config' = ReadConfig(fs, parsedFile[1])
    /\ HasSection(config', "nodes")
    /\ topo' = EmptyTopo
    /\ coordinates' = <<>>
    /\ idx' = 0
    /\ pc' = "ptNodes"
    /\ UNCHANGED <<otherVars, parsedFile, exitStatus>>

\* lines 146-150, config.items('nodes') raises NoSectionError
PtNoNodes ==
    /\ pc = "ptCall"
    /\ config' = ReadConfig(fs, parsedFile[1])
    /\ ~HasSection(config', "nodes")
    /\ topo' = EmptyTopo
    /\ pc' = "ptNoSection"
    /\ UNCHANGED <<otherVars, parsedFile, coordinates, idx, exitStatus>>

\* lines 153-158: a duplicate coordinate, sys.exit(1)
PtNodeDup ==
    /\ pc = "ptNodes"
    /\ idx < Len(config["nodes"])
    /\ IsDuplicate(coordinates, PtItem[2])
    /\ pc' = "exited"
    /\ exitStatus' = Some(1)
    /\ UNCHANGED <<otherVars, ptVars>>

\* lines 153-167: one node entry becomes one addHost call
PtNodeAdd ==
    /\ pc = "ptNodes"
    /\ idx < Len(config["nodes"])
    /\ ~IsDuplicate(coordinates, PtItem[2])
    /\ coordinates' = Append(coordinates, PtItem[2])
    /\ topo' = [topo EXCEPT !.hosts = Append(@, [name |-> PtItem[1][1],
                                                 params |-> NodeParams(PtItem[2], <<>>)])]
    /\ idx' = idx + 1
    /\ UNCHANGED <<otherVars, pc, parsedFile, config, exitStatus>>

\* lines 169-173: every entry of [switches] becomes one addSwitch call
PtSwitches ==
    /\ pc = "ptNodes"
    /\ idx = Len(config["nodes"])
    /\ HasSection(config, "switches")
    /\ topo' = [topo EXCEPT !.switches =
                   @ \o [i \in DOMAIN config["switches"] |-> config["switches"][i][1][1]]]
    /\ pc' = "ptLinksRead"
    /\ UNCHANGED <<otherVars, parsedFile, config, coordinates, idx, exitStatus>>

\* variant of PtNoSwitches: the NoSectionError of [switches] is not caught
PtNoSwitches_Raises ==
    /\ pc = "ptNodes"
    /\ idx = Len(config["nodes"])
    /\ ~HasSection(config, "switches")
    /\ pc' = "ptNoSection"
    /\ UNCHANGED <<otherVars, ptVars, exitStatus>>

\* lines 169-176: no [switches] section, the NoSectionError is passed over
PtNoSwitches ==
    /\ pc = "ptNodes"
    /\ idx = Len(config["nodes"])
    /\ ~HasSection(config, "switches")
    /\ pc' = "ptLinksRead"
    /\ UNCHANGED <<otherVars, ptVars, exitStatus>>

\* line 178, [links] present
PtLinksBegin ==
    /\ pc = "ptLinksRead"
    /\ HasSection(config, "links")
    /\ idx' = 0
    /\ pc' = "ptLinks"
    /\ UNCHANGED <<otherVars, parsedFile, config, topo, coordinates, exitStatus>>

\* line 178, config.items('links') raises NoSectionError
PtNoLinks ==
    /\ pc = "ptLinksRead"
    /\ ~HasSection(config, "links")
    /\ pc' = "ptNoSection"
    /\ UNCHANGED <<otherVars, ptVars, exitStatus>>

\* lines 179-192: one link entry becomes one addLink call
PtLink ==
    /\ pc = "ptLinks"
    /\ idx < Len(config["links"])
    /\ topo' = [topo EXCEPT !.links = Append(@, [node1 |-> PtItem[1][1], node2 |-> PtItem[1][2],
                                                 params |-> LinkParams(PtItem[2], <<>>)])]
    /\ idx' = idx + 1
    /\ UNCHANGED <<otherVars, pc, parsedFile, config, coordinates, exitStatus>>

\* line 194: return topo
PtReturn ==
    /\ pc = "ptLinks"
    /\ idx = Len(config["links"])
    /\ pc' = "ptReturned"
    /\ UNCHANGED <<otherVars, ptVars, exitStatus>>

(***************************************************************************)
(* SpecTopo: processTopo called on any file of at most MaxNodeItems node   *)
(* entries and MaxLinkItems link entries, with or without each section.    *)
(***************************************************************************)
KV(k, v) == <<k, v>>

NodeValues ==
    { <<Placeholder>>,
      <<KV("radius", <<"1">>)>>,
      <<KV("radius", <<"1">>), Placeholder, KV("angle", <<"2">>)>> }

LinkValues ==
    { <<KV("delay", <<"1", "0", "m", "s">>)>>,
      <<KV("delay", <<"1", "0", "m", "s">>), KV("bw", <<"1", "0">>)>>,
      <<KV("delay", <<"5">>), KV("loss", <<"5">>)>>,
      <<KV("bw", <<"0", "2", "0">>), KV("jitter", <<"1">>), KV("max_queue_size", <<"1", "0", "0">>),
        KV("loss", <<"2", ".", "5", "0">>)>>,
      <<KV("delay", <<"1", "0", "m", "s">>), KV("delay", <<"5">>)>> }

\* the key 'name:' of node or switch entry i, the key 'a:b' of link entry i
NodeKey(i) == <<Names[i], "">>

LinkKey(i) == <<Names[i], Names[i + 1]>>

NodeSections == {[i \in DOMAIN vs |-> <<NodeKey(i), vs[i]>>] : vs \in SeqsUpTo(NodeValues, MaxNodeItems)}

SwitchSections == {<<>>, << <<KV("s1", ""), <<>>>> >>}

LinkSections == {[i \in DOMAIN vs |-> <<LinkKey(i), vs[i]>>] : vs \in SeqsUpTo(LinkValues, MaxLinkItems)}

\* a file with the given sections; a section given as <<>> (not Some) is absent
MkConfig(n, s, l) ==
    [x \in (IF n = <<>> THEN {} ELSE {"nodes"}) \cup (IF s = <<>> THEN {} ELSE {"switches"})
             \cup (IF l = <<>> THEN {} ELSE {"links"}) |->
        IF x = "nodes" THEN n[1] ELSE IF x = "switches" THEN s[1] ELSE l[1]]

Opt(S) == {NoneVal} \cup {Some(x) : x \in S}

Configs == {MkConfig(n, s, l) : n \in Opt(NodeSections), s \in Opt(SwitchSections), l \in Opt(LinkSections)}

InitTopo ==
    /\ pc = "ptCall"
    /\ parsedFile = Some("topo.conf")
    /\ fs \in {[f \in {"topo.conf"} |-> c] : c \in Configs}
    /\ config = <<>>
    /\ topo = EmptyTopo
    /\ coordinates = <<>>
    /\ idx = 0
    /\ IdleCtor /\ IdleEth /\ IdleStop
    /\ net = NoneVal
    /\ homeDirs = {}
    /\ cleanups = <<>>
    /\ ndnSecurityDisabled = FALSE
    /\ exitStatus = NoneVal

NextTopo ==
    \/ PtEnter \/ PtNoNodes \/ PtNodeDup \/ PtNodeAdd \/ PtSwitches \/ PtNoSwitches
    \/ PtLinksBegin \/ PtNoLinks \/ PtLink \/ PtReturn

SpecTopo == InitTopo /\ [][NextTopo]_vars


(***************************************************************************)
(* The constructor (lines 56-108), start (196-198) and stop (200-209).     *)
(***************************************************************************)
\* lines 71-75: 'if not topoFile' takes the command line's file for None and ''
TopoFileOf(topoFile, a) ==
    IF topoFile = NoneVal \/ topoFile = Some("") THEN Some(a.topoFile) ELSE topoFile

\* variant of MustParse: noTopo is not consulted
MustParse_IgnoresNoTopo(t, noTopo) == t = NoneVal

\* line 77: topo is None and not noTopo
MustParse(t, noTopo) == t = NoneVal /\ ~noTopo

\* Mininet(topo=t): the hosts, switches and links the topology declares
MininetOf(t) ==
    [hosts |-> [i \in DOMAIN t.hosts |-> t.hosts[i].name],
     switches |-> t.switches,
     links |-> [i \in DOMAIN t.links |-> [node1 |-> t.links[i].node1, node2 |-> t.links[i].node2]]]

\* Mininet() without a topology
EmptyNet == [hosts |-> <<>>, switches |-> <<>>, links |-> <<>>]

\* variant of Switchless: the switch test always passes
Switchless_Always(n) == TRUE

\* line 96: not self.net.switches
Switchless(n) == n.switches = <<>>

lifeVars == <<stopVars, homeDirs, cleanups, ndnSecurityDisabled, fs>>

\* lines 65-80: no topology object was passed, the file is parsed
CtorParse ==
    /\ pc = "new"
    /\ MustParse(p_topo, p_noTopo)
    /\ resultDir' = args.resultDir
    /\ self_topoFile' = TopoFileOf(p_topoFile, args)
    /\ parsedFile' = self_topoFile'
    /\ pc' = "ptCall"
    /\ UNCHANGED <<p_topo, p_topoFile, p_noTopo, args, self_topo, config, topo, coordinates,
                   idx, net, ethVars, lifeVars, exitStatus>>

\* lines 65-76, 84-85: the topology object (or None) is taken as passed
CtorUseTopo ==
    /\ pc = "new"
    /\ ~MustParse(p_topo, p_noTopo)
    /\ resultDir' = args.resultDir
    /\ self_topoFile' = TopoFileOf(p_topoFile, args)
    /\ self_topo' = p_topo
    /\ pc' = "mkNet"
    /\ UNCHANGED <<p_topo, p_topoFile, p_noTopo, args, ptVars, net, ethVars, lifeVars,
                   exitStatus>>

\* line 80: self.topo = the topology processTopo returned
CtorTopoParsed ==
    /\ pc = "ptReturned"
    /\ self_topo' = Some(topo)
    /\ pc' = "mkNet"
    /\ UNCHANGED <<p_topo, p_topoFile, p_noTopo, args, resultDir, self_topoFile, ptVars, net,
                   ethVars, lifeVars, exitStatus>>

\* lines 81-83: NoSectionError is reported, sys.exit(1)
CtorNoSection ==
    /\ pc = "ptNoSection"
    /\ exitStatus' = Some(1)
    /\ pc' = "exited"
    /\ UNCHANGED <<ctorVars, ptVars, net, ethVars, lifeVars>>

\* lines 87-96: the network is created, initParams makes each host's home
\* directory, cleanups is emptied, and the switch test picks the next step
CtorMininet ==
    /\ pc = "mkNet"
    /\ net' = Some(IF ~p_noTopo THEN MininetOf(self_topo[1]) ELSE EmptyNet)
    /\ homeDirs' = homeDirs \cup Range(net'[1].hosts)
    /\ cleanups' = <<>>
    /\ pc' = IF Switchless(net'[1]) THEN "ethCall" ELSE "security"
    /\ UNCHANGED <<ctorVars, ptVars, ethVars, stopVars, ndnSecurityDisabled, fs, exitStatus>>

\* lines 99-108: ndnsec-get-default decides ndnSecurityDisabled; __init__ returns
CtorSecurity ==
    /\ pc \in {"security", "ethReturned"}
    /\ ndnSecurityDisabled' \in BOOLEAN
    /\ pc' = "ready"
    /\ UNCHANGED <<ctorVars, ptVars, ethVars, stopVars, net, homeDirs, cleanups, fs, exitStatus>>

Callbacks == {"cleanupA", "cleanupB"}

\* an application registers its clean up function (docstring 3.1): cleanups.append(c)
RegisterCleanup ==
    /\ pc = "ready"
    /\ Len(cleanups) < MaxCleanups
    /\ \E c \in Callbacks : cleanups' = Append(cleanups, c)
    /\ UNCHANGED <<pc, ctorVars, ptVars, ethVars, stopVars, net, homeDirs,
                   ndnSecurityDisabled, fs, exitStatus>>

\* lines 196-198: start()
Start ==
    /\ pc = "ready"
    /\ ~netRunning
    /\ netRunning' = TRUE
    /\ UNCHANGED <<pc, ctorVars, ptVars, ethVars, net, homeDirs, cleanups, netStopCalls,
                   cleanupLog, sIdx, movedFiles, ndnSecurityDisabled, fs, exitStatus>>

\* line 200: stop() is called
StopBegin ==
    /\ pc = "ready"
    /\ sIdx' = 0
    /\ pc' = "stopCleanups"
    /\ UNCHANGED <<ctorVars, ptVars, ethVars, net, homeDirs, cleanups, netRunning, netStopCalls,
                   cleanupLog, movedFiles, ndnSecurityDisabled, fs, exitStatus>>

\* lines 201-202: the next cleanup is called and returns
StopCleanup ==
    /\ pc = "stopCleanups"
    /\ sIdx < Len(cleanups)
    /\ cleanupLog' = Append(cleanupLog, cleanups[sIdx + 1])
    /\ sIdx' = sIdx + 1
    /\ UNCHANGED <<pc, ctorVars, ptVars, ethVars, net, homeDirs, cleanups, netRunning,
                   netStopCalls, movedFiles, ndnSecurityDisabled, fs, exitStatus>>

\* variant of StopCleanupRaises: net.stop() in a finally clause
StopCleanupRaises_StopsNet ==
    /\ pc = "stopCleanups"
    /\ sIdx < Len(cleanups)
    /\ cleanupLog' = Append(cleanupLog, cleanups[sIdx + 1])
    /\ netRunning' = FALSE
    /\ netStopCalls' = netStopCalls + 1
    /\ pc' = "raised"
    /\ UNCHANGED <<ctorVars, ptVars, ethVars, net, homeDirs, cleanups, sIdx, movedFiles,
                   ndnSecurityDisabled, fs, exitStatus>>

\* lines 201-202: the next cleanup is called and raises; nothing in stop() catches
StopCleanupRaises ==
    /\ pc = "stopCleanups"
    /\ sIdx < Len(cleanups)
    /\ cleanupLog' = Append(cleanupLog, cleanups[sIdx + 1])
    /\ pc' = "raised"
    /\ UNCHANGED <<ctorVars, ptVars, ethVars, net, homeDirs, cleanups, netRunning,
                   netStopCalls, sIdx, movedFiles, ndnSecurityDisabled, fs, exitStatus>>

\* variant of StopNet: net.stop() without waiting for the loop to end
StopNet_BeforeCleanups ==
    /\ pc = "stopCleanups"
    /\ netRunning' = FALSE
    /\ netStopCalls' = netStopCalls + 1
    /\ pc' = "netStopped"
    /\ UNCHANGED <<ctorVars, ptVars, ethVars, net, homeDirs, cleanups, cleanupLog, sIdx,
                   movedFiles, ndnSecurityDisabled, fs, exitStatus>>

\* line 203: the loop is over, self.net.stop()
StopNet ==
    /\ pc = "stopCleanups"
    /\ sIdx = Len(cleanups)
    /\ netRunning' = FALSE
    /\ netStopCalls' = netStopCalls + 1
    /\ pc' = "netStopped"
    /\ UNCHANGED <<ctorVars, ptVars, ethVars, net, homeDirs, cleanups, cleanupLog, sIdx,
                   movedFiles, ndnSecurityDisabled, fs, exitStatus>>

\* lines 205-209: resultDir is set, everything in workDir is moved there
StopMove ==
    /\ pc = "netStopped"
    /\ resultDir # NoneVal
    /\ movedFiles' = movedFiles \cup homeDirs
    /\ homeDirs' = {}
    /\ pc' = "stopped"
    /\ UNCHANGED <<ctorVars, ptVars, ethVars, net, cleanups, netRunning, netStopCalls,
                   cleanupLog, sIdx, ndnSecurityDisabled, fs, exitStatus>>

\* line 205: resultDir is None, stop() returns
StopNoMove ==
    /\ pc = "netStopped"
    /\ resultDir = NoneVal
    /\ pc' = "stopped"
    /\ UNCHANGED <<ctorVars, ptVars, ethVars, net, homeDirs, cleanups, stopVars,
                   ndnSecurityDisabled, fs, exitStatus>>

(***************************************************************************)
(* Spec: a Minindn object is constructed from some arguments, command line *)
(* and files, applications register cleanups, and it is started and        *)
(* stopped.                                                                *)
(***************************************************************************)
Item(k, v) == <<k, v>>

PlainFile ==
    MkConfig(Some(<<Item(NodeKey(1), <<Placeholder>>), Item(NodeKey(2), <<Placeholder>>)>>),
             NoneVal,
             Some(<<Item(<<"a", "b">>, <<KV("delay", <<"1", "0", "m", "s">>)>>)>>))

DefaultFile ==
    MkConfig(Some(<<Item(NodeKey(1), <<KV("radius", <<"1">>)>>), Item(NodeKey(2), <<Placeholder>>),
                    Item(NodeKey(3), <<Placeholder>>)>>),
             NoneVal,
             Some(<<Item(<<"a", "b">>, <<KV("delay", <<"1", "0", "m", "s">>), KV("bw", <<"1", "0">>)>>),
                    Item(<<"c", "b">>, <<KV("delay", <<"5">>), KV("loss", <<"5">>)>>)>>))

SwitchFile ==
    MkConfig(Some(<<Item(NodeKey(1), <<Placeholder>>), Item(NodeKey(2), <<Placeholder>>)>>),
             Some(<<Item(<<"s1", "">>, <<>>)>>),
             Some(<<Item(<<"a", "s1">>, <<KV("delay", <<"5">>)>>),
                    Item(<<"a", "b">>, <<KV("delay", <<"5">>)>>),
                    Item(<<"b", "s1">>, <<KV("delay", <<"5">>)>>)>>))

NoNodesFile ==
    MkConfig(NoneVal, NoneVal, Some(<<Item(<<"a", "b">>, <<KV("delay", <<"5">>)>>)>>))

NoLinksFile ==
    MkConfig(Some(<<Item(NodeKey(1), <<Placeholder>>), Item(NodeKey(2), <<Placeholder>>)>>),
             NoneVal, NoneVal)

DupFile ==
    MkConfig(Some(<<Item(NodeKey(1), <<KV("radius", <<"1">>)>>),
                    Item(NodeKey(2), <<KV("radius", <<"1">>)>>)>>),
             NoneVal,
             Some(<<Item(<<"a", "b">>, <<KV("delay", <<"5">>)>>)>>))

Files ==
    [f \in {"topo.conf", "default.conf", "switch.conf", "nonodes.conf", "nolinks.conf", "dup.conf"} |->
        CASE f = "topo.conf" -> PlainFile
          [] f = "default.conf" -> DefaultFile
          [] f = "switch.conf" -> SwitchFile
          [] f = "nonodes.conf" -> NoNodesFile
          [] f = "nolinks.conf" -> NoLinksFile
          [] f = "dup.conf" -> DupFile]

\* topology objects a caller may pass
TopoObjects ==
    { [hosts |-> <<[name |-> "x", params |-> <<>>], [name |-> "y", params |-> <<>>]>>,
       switches |-> <<>>,
       links |-> <<[node1 |-> "y", node2 |-> "x", params |-> <<>>]>>],
      [hosts |-> <<[name |-> "x", params |-> <<>>], [name |-> "y", params |-> <<>>]>>,
       switches |-> <<"sw">>,
       links |-> <<[node1 |-> "x", node2 |-> "y", params |-> <<>>],
                   [node1 |-> "x", node2 |-> "sw", params |-> <<>>]>>] }

TopoFileArgs == {NoneVal, Some(""), Some("topo.conf"), Some("switch.conf"), Some("nonodes.conf"),
                 Some("nolinks.conf"), Some("dup.conf"), Some("missing.conf")}

CommandLines == [topoFile : {"default.conf", "switch.conf"}, resultDir : {NoneVal, Some("/results")}]

Init ==
    /\ pc = "new"
    /\ p_topo \in Opt(TopoObjects)
    /\ p_topoFile \in TopoFileArgs
    /\ p_noTopo \in BOOLEAN
    /\ args \in CommandLines
    /\ fs = Files
    /\ resultDir = NoneVal
    /\ self_topoFile = NoneVal
    /\ self_topo = NoneVal
    /\ IdlePt /\ IdleEth /\ IdleStop
    /\ net = NoneVal
    /\ homeDirs = {}
    /\ cleanups = <<>>
    /\ ndnSecurityDisabled = FALSE
    /\ exitStatus = NoneVal

Next ==
    \/ CtorParse \/ CtorUseTopo \/ CtorTopoParsed \/ CtorNoSection \/ CtorMininet \/ CtorSecurity
    \/ PtEnter \/ PtNoNodes \/ PtNodeDup \/ PtNodeAdd \/ PtSwitches \/ PtNoSwitches
    \/ PtLinksBegin \/ PtNoLinks \/ PtLink \/ PtReturn
    \/ EthEnter \/ EthAssign \/ EthSeen \/ EthNextHost \/ EthReturn
    \/ RegisterCleanup \/ Start \/ StopBegin \/ StopCleanup \/ StopCleanupRaises \/ StopNet
    \/ StopMove \/ StopNoMove

Spec == Init /\ [][Next]_vars


(***************************************************************************)
(* Claims about processTopo (properties of SpecTopo).                      *)
(***************************************************************************)
\* the content of the file processTopo was called on (no section if it is missing)
ParsedContent == IF parsedFile[1] \in DOMAIN fs THEN fs[parsedFile[1]] ELSE <<>>

FileNodes == ParsedContent["nodes"]

FileLinks == ParsedContent["links"]

\* the node entries whose value string equals an earlier entry's and is not '_'
DupEntries(items) ==
    {i \in DOMAIN items : items[i][2] # << <<"_">> >> /\ \E j \in 1..(i - 1) : items[j][2] = items[i][2]}

FirstDup(items) == CHOOSE i \in DupEntries(items) : \A j \in DupEntries(items) : i <= j

HostNames(t) == [i \in DOMAIN t.hosts |-> t.hosts[i].name]

EntryNames(items, n) == [i \in 1..n |-> items[i][1][1]]

\* C4: with a duplicated non-'_' value, processTopo exits with status 1 at the first
\* such entry, having added a host for each entry before it and for none after,
\* and no switch or link; without one (however many nodes share '_') it never
\* exits and every node entry yields exactly one addHost call.
C4_DuplicateCoordinate ==
    (pc # "ptCall" /\ "nodes" \in DOMAIN ParsedContent) =>
        IF DupEntries(FileNodes) # {}
        THEN LET d == FirstDup(FileNodes)
             IN  /\ pc \in {"ptNodes", "exited"}
                 /\ topo.switches = <<>> /\ topo.links = <<>>
                 /\ pc = "ptNodes" =>
                       /\ idx <= d - 1
                       /\ HostNames(topo) = EntryNames(FileNodes, idx)
                       /\ idx = d - 1 => (ENABLED PtNodeDup /\ ~ENABLED PtNodeAdd)
                       /\ idx < d - 1 => (ENABLED PtNodeAdd /\ ~ENABLED PtNodeDup)
                 /\ pc = "exited" =>
                       /\ exitStatus = Some(1)
                       /\ HostNames(topo) = EntryNames(FileNodes, d - 1)
        ELSE /\ pc # "exited"
             /\ pc = "ptNodes" =>
                   /\ HostNames(topo) = EntryNames(FileNodes, idx)
                   /\ idx < Len(FileNodes) => (ENABLED PtNodeAdd /\ ~ENABLED PtNodeDup)
             /\ pc # "ptNodes" => HostNames(topo) = EntryNames(FileNodes, Len(FileNodes))

\* C4 witness: the exit at a third entry that repeats the second one's value, after
\* a '_' entry and the second entry each got their host
C4_Witness ==
    /\ pc = "exited"
    /\ Len(topo.hosts) = 2
    /\ FileNodes[1][2] = << <<"_">> >>
    /\ FileNodes[3][2] = FileNodes[2][2]

\* the other case of C4 is reachable too: three entries sharing '_', all added
C4_PlaceholderShared ==
    /\ pc = "ptReturned"
    /\ Len(topo.hosts) = 3
    /\ \A i \in 1..3 : FileNodes[i][2] = << <<"_">> >>

\* the numbers the literals of the generated files denote
IntLiteral(cs) ==
    CASE cs = <<"1">> -> 1
      [] cs = <<"1", "0">> -> 10
      [] cs = <<"0", "2", "0">> -> 20
      [] cs = <<"1", "0", "0">> -> 100

\* a float as the decimal num / 10^scale in lowest terms of ten
FloatLiteral(cs) ==
    CASE cs = <<"5">> -> [type |-> "float", num |-> 5, scale |-> 0]
      [] cs = <<"2", ".", "5", "0">> -> [type |-> "float", num |-> 25, scale |-> 1]

ExpectedLinkParams(tokens) ==
    [k \in {tokens[i][1] : i \in DOMAIN tokens} |->
        LET last == CHOOSE i \in DOMAIN tokens :
                        tokens[i][1] = k /\ \A j \in DOMAIN tokens : tokens[j][1] = k => j <= i
            v == tokens[last][2]
        IN  IF k \in {"bw", "jitter", "max_queue_size"} THEN [type |-> "int", val |-> IntLiteral(v)]
            ELSE IF k = "loss" THEN FloatLiteral(v)
            ELSE [type |-> "str", val |-> v]]

ExpectedAddLink(item) ==
    [node1 |-> item[1][1], node2 |-> item[1][2], params |-> ExpectedLinkParams(item[2])]

\* C5: the j-th addLink call is addLink(a, b, ...) of the j-th link entry 'a:b ...',
\* carrying exactly the entry's keys, with bw, jitter and max_queue_size as
\* integers, loss as a float and every other value as the unchanged string; on
\* return there is exactly one call per link entry.
C5_TypedLinkParams ==
    pc \in {"ptLinks", "ptReturned"} =>
        /\ Len(topo.links) = (IF pc = "ptLinks" THEN idx ELSE Len(FileLinks))
        /\ Len(topo.links) <= Len(FileLinks)
        /\ \A j \in DOMAIN topo.links : topo.links[j] = ExpectedAddLink(FileLinks[j])

\* C5 witness: returned with two addLink calls, one carrying bw, jitter,
\* max_queue_size as integers and loss as the float 2.5
C5_Witness ==
    /\ pc = "ptReturned"
    /\ Len(topo.links) = 2
    /\ DOMAIN topo.links[2].params = {"bw", "jitter", "max_queue_size", "loss"}
    /\ topo.links[2].params["jitter"] = [type |-> "int", val |-> 1]
    /\ topo.links[2].params["bw"] = [type |-> "int", val |-> 20]
    /\ topo.links[2].params["loss"] = [type |-> "float", num |-> 25, scale |-> 1]
    /\ topo.links[1].params["delay"] = [type |-> "str", val |-> <<"5">>]

(***************************************************************************)
(* Claims about the constructor and stop (properties of Spec).             *)
(***************************************************************************)
Constructed == pc \in {"ready", "stopCleanups", "raised", "netStopped", "stopped"}

\* C3: after the network is created the constructor goes on to
\* ethernetPairConnectivity if and only if the network has no switches; a
\* network with a switch never gets a setIP call, and a constructed switch-less
\* one has had both interfaces of every link set.
C3_EthIffSwitchless ==
    /\ pc \in {"ethCall", "eth", "ethReturned"} => Net.switches = <<>>
    /\ pc = "security" => Net.switches # <<>>
    /\ (net # NoneVal /\ Net.switches # <<>>) => setIPCalls = <<>>
    /\ (Constructed /\ Net.switches = <<>>) =>
          \A i \in DOMAIN Net.links, e \in {1, 2} : Cardinality(CallsOn(<<i, e>>)) = 1

\* C3 witness: constructed with a switch and a link joining two hosts directly,
\* and no setIP call
C3_Witness ==
    /\ pc = "ready"
    /\ Net.switches # <<>>
    /\ \E i \in DOMAIN Net.links : BothHosts(Net, i)
    /\ setIPCalls = <<>>

IsPrefix(s, t) == Len(s) <= Len(t) /\ \A i \in DOMAIN s : s[i] = t[i]

\* C6: the cleanups are invoked in registration order, each once, all of them
\* before net.stop(); files are moved only after net.stop() and only when
\* resultDir is not None, and then all of them; with resultDir None none is.
C6_StopOrder ==
    /\ IsPrefix(cleanupLog, cleanups)
    /\ netStopCalls \in {0, 1}
    /\ netStopCalls = 1 => cleanupLog = cleanups
    /\ pc = "stopCleanups" => (netStopCalls = 0 /\ Len(cleanupLog) = sIdx)
    /\ pc \in {"netStopped", "stopped"} => netStopCalls = 1
    /\ movedFiles # {} => (netStopCalls = 1 /\ resultDir # NoneVal /\ pc = "stopped")
    /\ pc = "netStopped" => (movedFiles = {} /\ homeDirs = Range(Net.hosts))
    /\ pc = "stopped" =>
          IF resultDir = NoneVal
          THEN movedFiles = {} /\ homeDirs = Range(Net.hosts)
          ELSE movedFiles = Range(Net.hosts) /\ homeDirs = {}

\* C6 witness: stopped after two different cleanups ran in order and the hosts'
\* directories were moved
C6_Witness ==
    /\ pc = "stopped"
    /\ cleanupLog = <<"cleanupB", "cleanupA">>
    /\ movedFiles # {}

\* the other case of C6 is reachable too: stopped with resultDir None, nothing moved
C6_WitnessNoMove ==
    /\ pc = "stopped"
    /\ resultDir = NoneVal
    /\ homeDirs # {}

TopoFileGiven == p_topoFile # NoneVal /\ p_topoFile # Some("")

\* C7: processTopo is called if and only if topo is None and noTopo is false, on
\* the topoFile argument when one is given (not None, not '') and on the command
\* line's file otherwise; a passed topology is used as it is; with noTopo the
\* network is created without a topology whatever was passed.
C7_ParseIffNoTopo ==
    pc # "new" =>
        /\ (parsedFile # NoneVal) <=> (p_topo = NoneVal /\ ~p_noTopo)
        /\ parsedFile # NoneVal =>
              /\ parsedFile = (IF TopoFileGiven THEN p_topoFile ELSE Some(args.topoFile))
              /\ pc # "ptCall" => config = ParsedContent
        /\ net # NoneVal =>
              IF p_noTopo THEN Net = EmptyNet
              ELSE IF p_topo # NoneVal
                   THEN /\ self_topo = p_topo
                        /\ Net.hosts = HostNames(p_topo[1])
                        /\ Net.switches = p_topo[1].switches
                        /\ Len(Net.links) = Len(p_topo[1].links)
                   ELSE /\ self_topo = Some(topo)
                        /\ Net.hosts = EntryNames(FileNodes, Len(FileNodes))
                        /\ Len(Net.links) = Len(FileLinks)

\* C7 witness: noTopo with a topology object also passed: nothing parsed, an
\* empty network
C7_Witness ==
    /\ pc = "ready"
    /\ p_noTopo /\ p_topo # NoneVal /\ TopoFileGiven
    /\ parsedFile = NoneVal
    /\ Net = EmptyNet

\* the other case of C7 is reachable too: topoFile '' makes the command line's file be parsed
C7_WitnessParsed ==
    /\ pc = "ready"
    /\ parsedFile = Some("default.conf")
    /\ p_topoFile = Some("")
    /\ Len(Net.hosts) = 3

\* C8: a file without [switches] raises nothing for that: no switch is added and,
\* unless a coordinate is duplicated, processTopo returns a topology holding
\* every node and link entry; a file without [nodes] or [links] never gets a
\* network: the NoSectionError reaches the constructor, which exits with
\* status 1.
C8_SwitchesOptional ==
    (parsedFile # NoneVal /\ pc # "ptCall") =>
        LET f == ParsedContent
            required == {"nodes", "links"} \subseteq DOMAIN f
        IN  /\ ~required =>
                  /\ net = NoneVal
                  /\ pc \in {"ptNodes", "ptLinksRead", "ptNoSection", "exited"}
                  /\ pc = "exited" => exitStatus = Some(1)
                  /\ pc = "ptNoSection" => ENABLED CtorNoSection
                  /\ pc = "ptLinksRead" => (ENABLED PtNoLinks /\ ~ENABLED PtLinksBegin)
            /\ required => pc # "ptNoSection"
            /\ (required /\ "switches" \notin DOMAIN f) =>
                  /\ topo.switches = <<>>
                  /\ DupEntries(FileNodes) = {} =>
                        /\ pc # "exited"
                        /\ pc \notin {"ptNodes", "ptLinksRead", "ptLinks"} =>
                              /\ HostNames(topo) = EntryNames(FileNodes, Len(FileNodes))
                              /\ Len(topo.links) = Len(FileLinks)
                              /\ \A j \in DOMAIN FileLinks :
                                    /\ topo.links[j].node1 = FileLinks[j][1][1]
                                    /\ topo.links[j].node2 = FileLinks[j][1][2]
                        /\ pc \notin {"ptNodes", "ptLinksRead", "ptLinks", "ptReturned"} =>
                              self_topo = Some(topo)

\* C8 witness: the exit with status 1, without a network, of a construction from a
\* file that has [nodes] and no [links], after both nodes were added
C8_Witness ==
    /\ pc = "exited"
    /\ exitStatus = Some(1)
    /\ parsedFile = Some("nolinks.conf")
    /\ Len(topo.hosts) = 2
    /\ net = NoneVal

\* the other case of C8 is reachable too: a network built from a file without [switches]
C8_WitnessNoSwitches ==
    /\ pc = "ready"
    /\ parsedFile = Some("default.conf")
    /\ "switches" \notin DOMAIN ParsedContent
    /\ Len(topo.hosts) = 3 /\ Len(topo.links) = 2 /\ topo.switches = <<>>

\* C10: when a cleanup raises, the cleanups after it have not run, net.stop() has
\* not been called, no file has been moved, the network's running state is what
\* it was, and nothing of stop() runs afterwards.
C10_RaisePropagates ==
    /\ [](pc = "raised" =>
            /\ Len(cleanupLog) = sIdx + 1
            /\ IsPrefix(cleanupLog, cleanups)
            /\ netStopCalls = 0
            /\ movedFiles = {}
            /\ homeDirs = Range(Net.hosts))
    /\ [][pc' = "raised" => netRunning' = netRunning]_vars
    /\ [][pc # "raised"]_vars

\* C10 witness: the first of two cleanups raised while the network was running
C10_Witness ==
    /\ pc = "raised"
    /\ netRunning
    /\ Len(cleanups) = 2
    /\ cleanupLog = <<cleanups[1]>>
    /\ homeDirs # {}

====
